---- MODULE Spec2Model ----
(***************************************************************************)
(* go-legs: subscriber-side synchronisation.                               *)
(*                                                                         *)
(* Three parts of the repository are modelled:                             *)
(*   - dtsync.Sync: the in-progress table (syncDoneChans), onEvent and the *)
(*     rate-limit gate addRateLimiting;                                    *)
(*   - httpsync.httpSubscriber: Sync, SetLatestSync, OnChange, Close and   *)
(*     the background loop;                                                *)
(*   - the broker and its per-publisher handler, which drive dtsync.Sync.  *)
(* A run constructs one subscriber (impl): the broker over dtsync, or the  *)
(* HTTP subscriber; the gate is also run alone, block by block ("gate").   *)
(* The two publishers, legPublisher ("pub") and the HTTP publisher         *)
(* ("head"), are run on their own.                                         *)
(***************************************************************************)
EXTENDS Integers, Sequences, FiniteSets, TLC

\* ---------------------------------------------------------------- bounds
MaxLink == 2
MaxSyncs == 2
MaxCalls == 2
MaxPasses == 3
MaxBlocks == 3
MaxMsg == 2
MaxTopic == 2
MaxQueries == 2
MaxEvents == 3

\* ------------------------------------------------------------- constants
Undef == 0
hitRateLimitErrStr == "hit rate limit"

Peers == {"p1", "p2"}
Observers == {"o1", "o2"}
\* The publisher's chain: link i is the parent of link i+1 (MkChain); the
\* link MaxLink+1 is held by no publisher (RandomCids).
Chain == 1..MaxLink
NoBlock == MaxLink + 1
Cids == 1..(MaxLink + 1)
SyncIds == 1..MaxSyncs

VARIABLES
    impl,           \* which subscriber was constructed: "broker" | "http"
    \* --- broker and handler
    latestSync,     \* Broker latest-sync map: peer -> link or Undef
    store,          \* subscriber's link-store: set of links
    head,           \* publisher's advertised head: peer -> link or Undef
    syncs,          \* sequence of sync requests (handler tasks)
    mtx,            \* per-publisher mutex: peer -> holder (0 = free)
    obs,            \* observers: [st, ch]
    closed,         \* broker closed
    calls,          \* calls made by the embedder besides Sync
    \* --- dtsync.Sync
    syncDoneChans,  \* in-progress table: key -> waiter (0 = no entry)
    doneChan,       \* waiter's channel: [buf, closed]
    delivered,      \* events the transfer manager has handed to onEvent
    isRetryingDueToRateLimit,   \* peer -> last refused block (0 = no entry)
    pass,           \* the transfer the gate sees: [sync, n, pos, hooks, allows, err, left]
    \* --- httpsync.httpSubscriber
    hHead,          \* h.head
    reqs,           \* h.reqs: buffered channel of capacity 1
    resp,           \* the resp channel of each Sync call: [buf, closed]
    bg,             \* locals of the background loop
    subs,           \* h.subs: the channels OnChange has handed out (NilSub = nil)
    panic,          \* the run-time panic that ended the process, or "none"
    \* --- publishers
    pub,            \* legPublisher: peers on the topic and the UpdateRoot calls
    hp              \* http publisher: root, rl and the calls in flight

dt == <<syncDoneChans, doneChan>>
bvars == <<latestSync, store, head, syncs, mtx, obs, closed, calls, dt>>
gvars == <<isRetryingDueToRateLimit, pass>>
hvars == <<hHead, reqs, resp, bg>>
ovars == <<subs, panic>>
pvars == <<pub, hp>>

\* ------------------------------------------------------------------ errors
\* An error value: its dynamic type and its text, a sequence of tokens.
Nil == [type |-> "nil", text |-> <<>>]
Err(t) == [type |-> "error", text |-> t]
ctxErr == Err(<<"context canceled">>)
headErr == Err(<<"cannot query head">>)
closedErr == Err(<<"sync closed">>)

Contains(msg, tok) == \E i \in 1..Len(msg) : msg[i] = tok
HasSuffix(msg, tok) == Len(msg) > 0 /\ msg[Len(msg)] = tok

\* onEvent: the error handed to the waiting handler for a terminal status.
OnEventErr_C11(status, msg) ==
    IF status = "Completed" THEN Nil
    ELSE IF status = "Cancelled" THEN Err(<<"datatransfer cancelled">>)
    ELSE Err(<<"datatransfer failed">> \o msg)
OnEventErr_C14(status, msg) ==
    IF status = "Failed" /\ ~Contains(msg, hitRateLimitErrStr) THEN Nil
    ELSE OnEventErr_C11(status, msg)
OnEventErr(status, msg) ==
    IF status = "Completed" THEN Nil
    ELSE IF status = "Cancelled" THEN Err(<<"datatransfer cancelled">>)
    ELSE LET e1 == IF Contains(msg, hitRateLimitErrStr)
                   THEN [type |-> "rateLimitErr", text |-> msg]
                   ELSE Err(<<"datatransfer failed">> \o msg)
         IN  IF HasSuffix(msg, "content not found")
             THEN Err(e1.text \o <<"content not found">>)
             ELSE e1

\* The terminal states a transfer started by the handler ends in.
BrokerEvents == {<<"Completed", <<>> >>, <<"Failed", <<hitRateLimitErrStr>> >>,
                 <<"Failed", <<"content not found">> >>}

\* The channel states onEvent can be called with: the three terminal ones
\* and one that is not; the message of a failed transfer is any sequence of
\* at most MaxMsg of these fragments.
Tokens == {hitRateLimitErrStr, "content not found", "graphsync request failed"}
Msgs == UNION {[1..n -> Tokens] : n \in 0..MaxMsg}
DtEvents ==
    {<<"Completed", <<>> >>, <<"Cancelled", <<>> >>, <<"Ongoing", <<>> >>}
        \cup {<<"Failed", m>> : m \in Msgs}
IsTerminal_C34(status) == TRUE
IsTerminal(status) == status \in {"Completed", "Cancelled", "Failed"}

\* ------------------------------------------------------- in-progress table
Keys == Cids \X Peers
NoChan == [buf |-> <<>>, closed |-> TRUE]

\* notifyOnSyncDone: a fresh single-buffered channel is stored under k.
NotifyTable_C8(k, w) == syncDoneChans
NotifyTable(k, w) == [syncDoneChans EXCEPT ![k] = w]
NotifyChans(k, w) == [doneChan EXCEPT ![w] = [buf |-> <<>>, closed |-> FALSE]]

\* signalSyncDone: removes the entry, sends err (when not nil), closes.
SignalFound(k) == syncDoneChans[k] # 0
SignalTable_C25(k) == syncDoneChans
SignalTable_C32(k) == [kk \in Keys |-> syncDoneChans[kk]]
SignalTable(k) == [syncDoneChans EXCEPT ![k] = 0]
SignalChans_C5(k, err) ==
    [doneChan EXCEPT ![syncDoneChans[k]] = [buf |-> @.buf, closed |-> TRUE]]
SignalChans_C20(k, err) ==
    [doneChan EXCEPT ![syncDoneChans[k]] = [buf |-> <<>>, closed |-> TRUE]]
SignalChans(k, err) ==
    LET w == syncDoneChans[k]
    IN  [doneChan EXCEPT ![w] =
            [buf |-> IF err # Nil THEN Append(@.buf, err) ELSE @.buf,
             closed |-> TRUE]]

\* Sync.Close: every waiter gets "sync closed", the table is dropped.
CloseTable_C18 == syncDoneChans
CloseTable == [k \in Keys |-> 0]
CloseChans ==
    [w \in SyncIds |->
        IF \E k \in Keys : syncDoneChans[k] = w
        THEN [buf |-> Append(doneChan[w].buf, closedErr), closed |-> TRUE]
        ELSE doneChan[w]]

\* --------------------------------------------------------------- selector
\* The blocks a traversal from target visits, in order: link i links to
\* link i+1, and the traversal stops before stop when the default selector
\* is wrapped with a stop at the latest sync. A caller's selector (explore
\* all) is used as is.
FetchSeq(target, stop, sel) ==
    IF target \notin Chain THEN <<>>
    ELSE LET last == IF ~sel /\ stop >= target THEN stop - 1 ELSE MaxLink
         IN  [i \in 1..(last - target + 1) |-> target + i - 1]

Range(q) == {q[i] : i \in 1..Len(q)}
Prefixes(q) == {{q[i] : i \in 1..n} : n \in 0..Len(q)}

\* ------------------------------------------------------ broker and handler
NewSync(p, c, sel, ann) ==
    [peer |-> p, cid |-> c, sel |-> sel, ann |-> ann, pc |-> "queued",
     target |-> Undef, stop |-> Undef, status |-> "none", err |-> Nil,
     out |-> <<>>, outClosed |-> FALSE]

\* A default sync: neither a link nor a selector came from the caller; the
\* link of an announcement comes from the publisher.
IsDefault(s) == (syncs[s].ann \/ syncs[s].cid = Undef) /\ ~syncs[s].sel

\* Fan-out of the sync-finished event of sync s to the observers.
FanOut_C6(s) ==
    [o \in Observers |->
        IF obs[o].st = "live" /\ o = CHOOSE x \in Observers : obs[x].st = "live"
        THEN [obs[o] EXCEPT !.ch = Append(@, s)]
        ELSE obs[o]]
FanOut_C35(s) ==
    [o \in Observers |->
        IF obs[o].st = "live" /\ syncs[s].target # syncs[s].stop
        THEN [obs[o] EXCEPT !.ch = Append(@, s)]
        ELSE obs[o]]
FanOut(s) ==
    [o \in Observers |->
        IF obs[o].st = "live" THEN [obs[o] EXCEPT !.ch = Append(@, s)]
        ELSE obs[o]]

\* Step 5 of the handler, for sync s ending with err and target tgt.
FinalLatest(s, err, tgt) ==
    IF err = Nil /\ IsDefault(s)
    THEN [latestSync EXCEPT ![syncs[s].peer] = tgt]
    ELSE latestSync

FinalOut(err, tgt) == IF err = Nil THEN <<tgt>> ELSE <<>>

Finished(s, status, err, tgt) ==
    [syncs[s] EXCEPT !.pc = "done", !.status = status, !.err = err,
                     !.target = tgt, !.stop = Undef,
                     !.out = FinalOut(err, tgt), !.outClosed = TRUE]

Unlock_C9(s, err) == IF err = Nil THEN [mtx EXCEPT ![syncs[s].peer] = 0] ELSE mtx
Unlock(s, err) == [mtx EXCEPT ![syncs[s].peer] = 0]

Finalize(s, status, err, tgt) ==
    /\ latestSync' = FinalLatest(s, err, tgt)
    /\ obs' = FanOut(s)
    /\ mtx' = Unlock(s, err)
    /\ syncs' = [syncs EXCEPT ![s] = Finished(s, status, err, tgt)]

\* The (link, selector given) pairs callers pass to Sync.
Requests == {<<Undef, FALSE>>, <<Undef, TRUE>>, <<1, FALSE>>, <<NoBlock, FALSE>>}

\* Broker.Sync(ctx, p, c, sel): a request is handed to p's handler.
SyncCall(p, c, sel) ==
    /\ impl = "broker" /\ ~closed /\ Len(syncs) < MaxSyncs
    /\ syncs' = Append(syncs, NewSync(p, c, sel, FALSE))
    /\ UNCHANGED <<impl, ovars, delivered, pvars, latestSync, store, head, mtx, obs, closed, calls, dt, gvars, hvars>>

\* The publisher updates its root to l and announces it; the announcement
\* (p, l) is dispatched as a default sync for l.
Announce(p, l) ==
    /\ impl = "broker" /\ ~closed /\ Len(syncs) < MaxSyncs
    /\ head' = [head EXCEPT ![p] = l]
    /\ syncs' = Append(syncs, NewSync(p, l, FALSE, TRUE))
    /\ UNCHANGED <<impl, ovars, delivered, pvars, latestSync, store, mtx, obs, closed, calls, dt, gvars, hvars>>

\* Step 1: the publisher's lock is free.
CanEnter(s) == mtx[syncs[s].peer] = 0

\* Step 2: the caller's or the announced link, or the publisher's head.
ResolveTarget(s) == IF syncs[s].cid # Undef THEN syncs[s].cid ELSE head[syncs[s].peer]

\* The errors that end a sync before its transfer starts: the broker was
\* shut down, the head query failed, the caller's context is done.
EarlyErrs(s) ==
    IF closed THEN {closedErr}
    ELSE (IF syncs[s].cid = Undef THEN {headErr} ELSE {})
            \cup (IF syncs[s].ann THEN {} ELSE {ctxErr})

\* Steps 1 to 4 up to the wire request: acquire the publisher's lock, read
\* the latest sync (the stop), take the caller's link or query the head,
\* register the waiter (Syncer.Sync -> notifyOnSyncDone).
Begin(s) ==
    /\ impl = "broker" /\ s \in 1..Len(syncs)
    /\ syncs[s].pc = "queued" /\ CanEnter(s)
    /\ \/ /\ \E e \in EarlyErrs(s) :
                /\ latestSync' = FinalLatest(s, e, Undef)
                /\ obs' = FanOut(s)
                /\ syncs' = [syncs EXCEPT ![s] = Finished(s, "none", e, Undef)]
          /\ UNCHANGED <<mtx, dt>>
       \/ /\ ~closed /\ ResolveTarget(s) # Undef
          /\ mtx' = [mtx EXCEPT ![syncs[s].peer] = s]
          /\ syncs' = [syncs EXCEPT ![s].pc = "running",
                                    ![s].stop = latestSync[syncs[s].peer],
                                    ![s].target = ResolveTarget(s)]
          /\ syncDoneChans' = NotifyTable(<<ResolveTarget(s), syncs[s].peer>>, s)
          /\ doneChan' = NotifyChans(<<ResolveTarget(s), syncs[s].peer>>, s)
          /\ UNCHANGED <<latestSync, obs>>
    /\ UNCHANGED <<impl, ovars, delivered, pvars, store, head, closed, calls, gvars, hvars>>

SyncKey(s) == <<syncs[s].target, syncs[s].peer>>

\* The transport reports a terminal channel state for the transfer of sync
\* s (onEvent signals the waiter) and Syncer.Sync returns it to the handler;
\* the blocks received so far are in the store. A transfer completes only
\* when the publisher holds the target's chain. A rate-limited transfer is
\* started again with the same target and selector.
Complete(s, status, msg) ==
    /\ impl = "broker" /\ ~closed /\ s \in 1..Len(syncs)
    /\ syncs[s].pc = "running" /\ IsTerminal(status)
    /\ SignalFound(SyncKey(s))
    /\ status = "Completed" => syncs[s].target \in Chain
    /\ LET q == FetchSeq(syncs[s].target, syncs[s].stop, syncs[s].sel)
       IN  \E got \in Prefixes(q) :
              /\ status = "Completed" => got = Range(q)
              /\ status # "Completed" => got # Range(q) \/ q = <<>>
              /\ store' = store \cup got
    /\ LET ch == SignalChans(SyncKey(s), OnEventErr(status, msg))[s]
           err == IF ch.buf # <<>> THEN ch.buf[1] ELSE Nil
       IN  IF err.type = "rateLimitErr"
           THEN /\ UNCHANGED <<latestSync, mtx, obs, syncs, dt>>
           ELSE /\ Finalize(s, status, err, syncs[s].target)
                /\ syncDoneChans' = SignalTable(SyncKey(s))
                /\ doneChan' = [doneChan EXCEPT ![s] = NoChan]
    /\ UNCHANGED <<impl, ovars, delivered, pvars, head, closed, calls, gvars, hvars>>

\* The caller cancels the context of its running sync: Syncer.Sync drains
\* the entry and the handler aborts.
Abort(s) ==
    /\ impl = "broker" /\ s \in 1..Len(syncs)
    /\ syncs[s].pc = "running" /\ ~syncs[s].ann
    /\ IF SignalFound(SyncKey(s))
       THEN /\ syncDoneChans' = SignalTable(SyncKey(s))
            /\ doneChan' = [doneChan EXCEPT ![s] = NoChan]
       ELSE UNCHANGED dt
    /\ Finalize(s, "none", ctxErr, syncs[s].target)
    /\ UNCHANGED <<impl, ovars, delivered, pvars, store, head, closed, calls, gvars, hvars>>

\* Syncer.Sync of a running sync reads the error Sync.Close left on its
\* channel and the handler ends the sync with it.
Return(s) ==
    /\ impl = "broker" /\ s \in 1..Len(syncs)
    /\ syncs[s].pc = "running"
    /\ doneChan[s].closed /\ doneChan[s].buf # <<>>
    /\ Finalize(s, "none", doneChan[s].buf[1], syncs[s].target)
    /\ doneChan' = [doneChan EXCEPT ![s] = NoChan]
    /\ UNCHANGED <<impl, ovars, delivered, pvars, store, head, closed, calls, syncDoneChans, gvars, hvars>>

\* Broker.OnSyncFinished: a new observer channel.
OnSyncFinished(o) ==
    /\ impl = "broker" /\ ~closed /\ obs[o].st = "unused" /\ calls < MaxCalls
    /\ obs' = [obs EXCEPT ![o].st = "live"]
    /\ calls' = calls + 1
    /\ UNCHANGED <<impl, ovars, delivered, pvars, latestSync, store, head, syncs, mtx, closed, dt, gvars, hvars>>

\* The channel of observer o is in the broker's observer set.
Registered_C16(o) == obs[o].st # "unused"
Registered(o) == obs[o].st = "live"

\* The observer's cancel function: removes and closes its channel; a no-op
\* when the channel is no longer registered.
CancelObserver(o) ==
    /\ impl = "broker" /\ obs[o].st # "unused"
    /\ IF Registered(o)
       THEN obs' = [obs EXCEPT ![o].st = "closed", ![o].closes = @ + 1]
       ELSE UNCHANGED obs
    /\ UNCHANGED <<calls, impl, ovars, delivered, pvars, latestSync, store, head, syncs, mtx, closed, dt, gvars, hvars>>

\* Broker.SetLatestSync(p, l).
SetLatestSync(p, l) ==
    /\ impl = "broker" /\ ~closed /\ calls < MaxCalls
    /\ latestSync' = [latestSync EXCEPT ![p] = l]
    /\ calls' = calls + 1
    /\ UNCHANGED <<impl, ovars, delivered, pvars, store, head, syncs, mtx, obs, closed, dt, gvars, hvars>>

\* Broker.Close: observer channels are closed, dtsync.Sync is closed; a
\* second call changes nothing.
Close_C17 ==
    /\ impl = "broker" /\ calls < MaxCalls
    /\ calls' = calls + 1
    /\ closed' = TRUE
    /\ obs' = [o \in Observers |->
                  IF obs[o].st # "unused"
                  THEN [obs[o] EXCEPT !.st = "closed", !.closes = @ + 1]
                  ELSE obs[o]]
    /\ syncDoneChans' = CloseTable
    /\ doneChan' = CloseChans
    /\ UNCHANGED <<impl, ovars, delivered, pvars, latestSync, store, head, syncs, mtx, gvars, hvars>>
Close ==
    /\ impl = "broker"
    /\ IF closed THEN UNCHANGED <<closed, obs, dt, calls>>
       ELSE /\ calls < MaxCalls
            /\ calls' = calls + 1
            /\ closed' = TRUE
            /\ obs' = [o \in Observers |->
                          IF Registered(o)
                          THEN [obs[o] EXCEPT !.st = "closed", !.closes = @ + 1]
                          ELSE obs[o]]
            /\ syncDoneChans' = CloseTable
            /\ doneChan' = CloseChans
    /\ UNCHANGED <<impl, ovars, delivered, pvars, latestSync, store, head, syncs, mtx, gvars, hvars>>

BrokerNext ==
    \/ \E p \in Peers, r \in Requests : SyncCall(p, r[1], r[2])
    \/ \E p \in Peers, l \in Chain : Announce(p, l)
    \/ \E s \in SyncIds : Begin(s)
    \/ \E s \in SyncIds, ev \in BrokerEvents : Complete(s, ev[1], ev[2])
    \/ \E s \in SyncIds : Abort(s)
    \/ \E s \in SyncIds : Return(s)
    \/ \E o \in Observers : OnSyncFinished(o)
    \/ \E o \in Observers : CancelObserver(o)
    \/ \E p \in Peers, l \in Chain : SetLatestSync(p, l)
    \/ Close

BrokerInit ==
    /\ latestSync = [p \in Peers |-> Undef]
    /\ store = {}
    /\ head = [p \in Peers |-> Undef]
    /\ syncs = <<>>
    /\ mtx = [p \in Peers |-> 0]
    /\ obs = [o \in Observers |-> [st |-> "unused", ch |-> <<>>, closes |-> 0]]
    /\ closed = FALSE
    /\ calls = 0
    /\ syncDoneChans = [k \in Keys |-> 0]
    /\ doneChan = [w \in SyncIds |-> NoChan]

\* --------------------------------------------------------- rate-limit gate
\* The hook addRateLimiting returns, applied to block b of peer p:
\* local = size on wire is zero, allow = limiter.Allow().
AsksLimiter_C27(local) == TRUE
AsksLimiter_C39(local) == local \/ ~local
AsksLimiter(local) == ~local

GateRefuses(local, allow) == AsksLimiter(local) /\ ~allow

\* The slot after the limiter refused block b.
SlotRefused_C28(p, b) ==
    IF isRetryingDueToRateLimit[p] = 0
    THEN [isRetryingDueToRateLimit EXCEPT ![p] = b]
    ELSE isRetryingDueToRateLimit
SlotRefused(p, b) == [isRetryingDueToRateLimit EXCEPT ![p] = b]

\* The slot after block b passed the limiter.
SlotAfter(p, b) ==
    IF isRetryingDueToRateLimit[p] = b
    THEN [isRetryingDueToRateLimit EXCEPT ![p] = 0]
    ELSE isRetryingDueToRateLimit

\* bFn is called for block b.
CallsHook_C29(p, b) == isRetryingDueToRateLimit[p] = 0
CallsHook(p, b) == isRetryingDueToRateLimit[p] \in {0, b}

\* The slot of p when a sync for p terminates.
SlotAtEnd_C30(p) == isRetryingDueToRateLimit
SlotAtEnd(p) == [isRetryingDueToRateLimit EXCEPT ![p] = 0]

\* The blocks of the transfer the gate sees, in traversal order.
Blocks == 1..MaxBlocks

GatePeer == "p1"

\* A limiter: the one the configured lookup gives for the peer, one a caller
\* hands to NewSyncer, or none.
NoLimiter == "none"
limiterFor(p) == "lookup"
Explicit == "explicit"

\* left is the slot the previous sync of the peer ended with. given is the
\* limiter handed to NewSyncer, rateLimiter the Syncer's field, override
\* the peer's entry of overrideRateLimiterFor, asked the limiters the gate
\* has consulted. got counts the tokens granted on the current pass and
\* last is the block the pass before it was refused at.
NoPass(n) ==
    [sync |-> n, n |-> 0, pos |-> 0, hooks |-> <<>>, allows |-> 0, err |-> <<>>,
     left |-> 0, made |-> FALSE, given |-> NoLimiter, rateLimiter |-> NoLimiter,
     override |-> NoLimiter, asked |-> {}, got |-> 0, last |-> 0]

\* The limiter the gate consults for peer p.
wrapRateLimiterFor(p) ==
    IF pass.override # NoLimiter THEN pass.override ELSE limiterFor(p)

\* A Syncer is made for the next sync of the peer.
NewSyncer(rateLimiter) ==
    /\ impl = "gate" /\ pass.n = 0 /\ ~pass.made
    /\ pass' = [pass EXCEPT !.made = TRUE, !.given = rateLimiter,
                            !.rateLimiter = limiterFor(GatePeer)]
    /\ UNCHANGED <<bvars, hvars, impl, ovars, delivered, pvars, isRetryingDueToRateLimit>>

\* The handler starts the transfer, or starts it again after a refusal.
GateBegin ==
    /\ impl = "gate" /\ pass.made /\ pass.pos = 0
    /\ pass' = [pass EXCEPT !.n = @ + 1, !.pos = 1, !.err = <<>>,
                            !.override = pass.rateLimiter, !.got = 0,
                            !.last = isRetryingDueToRateLimit[GatePeer]]
    /\ UNCHANGED <<bvars, hvars, impl, ovars, delivered, pvars, isRetryingDueToRateLimit>>

GateStart == pass.n < MaxPasses /\ GateBegin

\* The transport hands the next block of the traversal to the hook. A block
\* the store does not hold comes over the wire; a block it holds is read
\* locally or sent again.
OnIncomingBlock(local, allow) ==
    /\ impl = "gate" /\ pass.pos \in Blocks
    /\ local => pass.pos \in store
    /\ LET b == pass.pos
           asked == IF AsksLimiter(local) THEN 1 ELSE 0
           consulted == IF AsksLimiter(local)
                        THEN {wrapRateLimiterFor(GatePeer)} ELSE {}
       IN  IF GateRefuses(local, allow)
           THEN /\ isRetryingDueToRateLimit' = SlotRefused(GatePeer, b)
                /\ pass' = [pass EXCEPT !.pos = 0, !.allows = @ + asked,
                                        !.asked = @ \cup consulted,
                                        !.err = <<hitRateLimitErrStr>>]
                /\ UNCHANGED store
           ELSE /\ isRetryingDueToRateLimit' = SlotAfter(GatePeer, b)
                /\ pass' = [pass EXCEPT
                               !.pos = b + 1,
                               !.allows = @ + asked,
                               !.got = @ + asked,
                               !.asked = @ \cup consulted,
                               !.hooks = IF CallsHook(GatePeer, b)
                                         THEN Append(@, b) ELSE @]
                /\ store' = store \cup {b}
    /\ UNCHANGED <<impl, ovars, delivered, pvars, latestSync, head, syncs, mtx, obs, closed, calls, dt, hvars>>

\* The sync terminates: the transfer went through, or the caller gave up
\* after a refusal. The next sync of the peer begins with a fresh pass.
GateEnd ==
    /\ impl = "gate" /\ pass.n > 0 /\ pass.sync < MaxSyncs
    /\ pass.pos = 0 \/ pass.pos = MaxBlocks + 1
    /\ isRetryingDueToRateLimit' = SlotAtEnd(GatePeer)
    /\ pass' = [NoPass(pass.sync + 1) EXCEPT
                   !.left = isRetryingDueToRateLimit[GatePeer]]
    /\ UNCHANGED <<impl, ovars, delivered, pvars, bvars, hvars>>

GateNext ==
    \/ \E rl \in {NoLimiter, Explicit} : NewSyncer(rl)
    \/ GateStart
    \/ \E local \in BOOLEAN, allow \in BOOLEAN : OnIncomingBlock(local, allow)
    \/ GateEnd

GateIdle ==
    /\ isRetryingDueToRateLimit = [p \in Peers |-> 0]
    /\ pass = NoPass(1)

\* ------------------------------------------------- httpsync.httpSubscriber
HttpPeer == "p1"
NilChan == 0
\* The nil element of h.subs.
NilSub == "nil"

\* http publisher UpdateRoot(c).
UpdateRoot(c) ==
    /\ impl = "http" /\ panic = "none"
    /\ head' = [head EXCEPT ![HttpPeer] = c]
    /\ UNCHANGED <<impl, ovars, delivered, pvars, latestSync, store, syncs, mtx, obs, closed, calls, dt, gvars, hvars>>

\* httpSubscriber.Sync(ctx, p, c, selector): blocks while reqs is full.
NextResp == Cardinality({w \in SyncIds : resp[w].made}) + 1

HttpSync(c, sel) ==
    /\ impl = "http" /\ panic = "none" /\ Len(reqs) < 1 /\ NextResp \in SyncIds
    /\ reqs' = Append(reqs, [cid |-> c, dss |-> sel, resp |-> NextResp])
    /\ resp' = [resp EXCEPT ![NextResp] =
                   [made |-> TRUE, cid |-> c, dss |-> sel, buf |-> <<>>, closed |-> FALSE]]
    /\ UNCHANGED <<impl, ovars, delivered, pvars, bvars, gvars, hHead, bg>>

\* httpSubscriber.SetLatestSync(c).
HttpSetLatestSync(c) ==
    /\ impl = "http" /\ panic = "none" /\ calls < MaxCalls
    /\ hHead' = c
    /\ calls' = calls + 1
    /\ UNCHANGED <<impl, ovars, delivered, pvars, latestSync, store, head, syncs, mtx, obs, closed, dt, gvars, reqs, resp, bg>>

\* background: the loop is at its select.
BgIdle_C4 == bg.pc # "resolve"
BgIdle == bg.pc = "select"

\* background: should a successful resolution of nextCid replace the head.
UpdateHeadFor_C1(sel, nextCid) == ~sel /\ nextCid # Undef
UpdateHeadFor_C3(sel, nextCid) == ~sel
UpdateHeadFor(sel, nextCid) == ~sel /\ nextCid = Undef

\* background, case r := <-h.reqs.
BgRequest ==
    /\ impl = "http" /\ panic = "none" /\ BgIdle /\ reqs # <<>>
    /\ LET r == Head(reqs)
       IN  bg' = [pc |-> "resolve", nextCid |-> r.cid, workResp |-> r.resp,
                  sel |-> r.dss, updateHead |-> UpdateHeadFor(r.dss, r.cid),
                  stop |-> Undef, default |-> r.cid = Undef /\ ~r.dss,
                  ok |-> FALSE]
    /\ reqs' = Tail(reqs)
    /\ UNCHANGED <<impl, ovars, delivered, pvars, bvars, gvars, hHead, resp>>

\* background, case <-defaultRate.C.
BgTimer ==
    /\ impl = "http" /\ panic = "none" /\ BgIdle /\ calls < MaxCalls
    /\ bg' = [pc |-> "resolve", nextCid |-> Undef, workResp |-> NilChan,
              sel |-> FALSE, updateHead |-> TRUE, stop |-> Undef,
              default |-> TRUE, ok |-> FALSE]
    /\ calls' = calls + 1
    /\ UNCHANGED <<impl, ovars, delivered, pvars, latestSync, store, head, syncs, mtx, obs, closed, dt, gvars, hHead, reqs, resp>>

\* background, top of the loop: the response of the previous iteration.
FinishUp(w, c) ==
    IF w = NilChan THEN resp
    ELSE [resp EXCEPT ![w].buf = Append(@, c), ![w].closed = TRUE]

\* background: the head after an iteration.
HeadAfter_C2(ok, updateHead, nextCid) == IF updateHead THEN nextCid ELSE hHead
HeadAfter_C21(ok, updateHead, nextCid) == IF ok THEN nextCid ELSE hHead
HeadAfter(ok, updateHead, nextCid) == IF ok /\ updateHead THEN nextCid ELSE hHead

\* background: GetHead when no CID is given, then the stop for the
\* default selector. A failed GetHead continues with the next iteration.
\* background: the stop link handed to ExploreRecursiveWithStopNode is
\* cidlink.Link{Cid: currHead}, the head h read under the mutex.
currHead_C12(h) == Undef
currHead_C13(h) == IF h = Undef THEN Undef ELSE h + 1
currHead(h) == h
BgResolve ==
    /\ impl = "http" /\ panic = "none" /\ bg.pc = "resolve"
    /\ \/ /\ bg.nextCid = Undef
          /\ resp' = FinishUp(bg.workResp, Undef)
          /\ bg' = [bg EXCEPT !.pc = "select", !.workResp = NilChan, !.ok = FALSE]
       \/ /\ bg.nextCid = Undef => head[HttpPeer] # Undef
          /\ bg' = [bg EXCEPT !.pc = "transfer",
                              !.nextCid = IF @ = Undef THEN head[HttpPeer] ELSE @,
                              !.stop = IF bg.sel THEN Undef ELSE hHead]
          /\ UNCHANGED resp
    /\ UNCHANGED <<impl, ovars, delivered, pvars, bvars, gvars, hHead, reqs>>

\* background: syncer.Sync, the head update, and the finish-up at the top
\* of the next iteration.
BgTransfer(ok) ==
    /\ impl = "http" /\ panic = "none" /\ bg.pc = "transfer"
    /\ ok => bg.nextCid \in Chain
    /\ LET q == FetchSeq(bg.nextCid, currHead(bg.stop), bg.sel)
       IN  \E got \in Prefixes(q) :
              /\ ok => got = Range(q)
              /\ ~ok => got # Range(q) \/ q = <<>>
              /\ store' = store \cup got
    /\ hHead' = HeadAfter(ok, bg.updateHead, bg.nextCid)
    /\ resp' = FinishUp(bg.workResp, bg.nextCid)
    /\ bg' = [bg EXCEPT !.pc = "select", !.workResp = NilChan, !.ok = ok]
    /\ UNCHANGED <<impl, ovars, delivered, pvars, latestSync, head, syncs, mtx, obs, closed, calls, dt, gvars, reqs>>

HttpNext ==
    \/ \E c \in Chain : UpdateRoot(c)
    \/ \E r \in Requests : HttpSync(r[1], r[2])
    \/ \E c \in Chain : HttpSetLatestSync(c)
    \/ BgRequest
    \/ BgTimer
    \/ BgResolve
    \/ \E ok \in BOOLEAN : BgTransfer(ok)

\* httpSubscriber.OnChange: a new unbuffered channel o is appended to subs.
HttpOnChange(o) ==
    /\ impl = "http" /\ panic = "none" /\ obs[o].st = "unused"
    /\ obs' = [obs EXCEPT ![o].st = "live"]
    /\ subs' = Append(subs, o)
    /\ UNCHANGED <<impl, delivered, pvars, latestSync, store, head, syncs, mtx, closed, calls, dt, gvars, hvars, panic>>

\* The places of channel o in subs.
SubsAt(o) == {i \in 1..Len(subs) : subs[i] = o}

\* The cancel function OnChange returned with channel o: the first place of
\* o in subs is filled with the last element, subs is cut by one and o is
\* closed; nothing happens when o is not in subs.
HttpCancel(o) ==
    /\ impl = "http" /\ panic = "none" /\ obs[o].st # "unused"
    /\ IF SubsAt(o) = {} THEN UNCHANGED <<obs, subs, panic>>
       ELSE LET i == CHOOSE x \in SubsAt(o) : \A y \in SubsAt(o) : x <= y
                n == Len(subs)
            IN  /\ subs' = SubSeq([subs EXCEPT ![i] = subs[n]], 1, n - 1)
                /\ IF obs[o].st = "closed"
                   THEN panic' = "close of closed channel" /\ UNCHANGED obs
                   ELSE /\ obs' = [obs EXCEPT ![o].st = "closed", ![o].closes = @ + 1]
                        /\ UNCHANGED panic
    /\ UNCHANGED <<impl, delivered, pvars, latestSync, store, head, syncs, mtx, closed, calls, dt, gvars, hvars>>

\* The places of subs whose close panics: a nil channel, a closed channel,
\* a channel that is in subs a second time.
BadCloses ==
    {i \in 1..Len(subs) :
        \/ subs[i] = NilSub
        \/ obs[subs[i]].st = "closed"
        \/ \E j \in 1..(i - 1) : subs[j] = subs[i]}

\* httpSubscriber.Close: the channels of subs are closed in order, then subs
\* is replaced by an empty list; the loop ends at the first close that
\* panics.
HttpClose ==
    /\ impl = "http" /\ panic = "none"
    /\ LET n == IF BadCloses = {} THEN Len(subs)
                ELSE (CHOOSE x \in BadCloses : \A y \in BadCloses : x <= y) - 1
       IN  /\ obs' = [o \in Observers |->
                        IF \E i \in 1..n : subs[i] = o
                        THEN [obs[o] EXCEPT !.st = "closed", !.closes = @ + 1]
                        ELSE obs[o]]
           /\ IF BadCloses = {}
              THEN subs' = <<>> /\ UNCHANGED panic
              ELSE /\ panic' = IF subs[n + 1] = NilSub
                               THEN "close of nil channel"
                               ELSE "close of closed channel"
                   /\ UNCHANGED subs
    /\ closed' = TRUE
    /\ UNCHANGED <<impl, delivered, pvars, latestSync, store, head, syncs, mtx, calls, dt, gvars, hvars>>

\* The HTTP subscriber with its observers; a panic ends the process.
HttpObsNext ==
    \/ HttpNext
    \/ \E o \in Observers : HttpOnChange(o)
    \/ \E o \in Observers : HttpCancel(o)
    \/ HttpClose

\* h.subs is made with one element, which is nil.
HttpIdle ==
    /\ subs = <<NilSub>> /\ panic = "none"
    /\ hHead = Undef
    /\ reqs = <<>>
    /\ resp = [w \in SyncIds |->
                 [made |-> FALSE, cid |-> Undef, dss |-> FALSE, buf |-> <<>>, closed |-> FALSE]]
    /\ bg = [pc |-> "select", nextCid |-> Undef, workResp |-> NilChan,
             sel |-> FALSE, updateHead |-> FALSE, stop |-> Undef,
             default |-> FALSE, ok |-> FALSE]

\* ------------------------------------------------------------ legPublisher
\* A publish option is WithReadiness(MinTopicSize(n)), written n. Publish
\* applies its options in order, so the last readiness given is the one
\* that counts.
Sizes == 0..MaxTopic
CallerOpts == {<<>>} \cup {<<n>> : n \in Sizes}

\* UpdateRoot puts its default, MinTopicSize(1), in front of the caller's
\* options.
PubOpts_C23(opts) == opts \o <<1>>
PubOpts(opts) == <<1>> \o opts

Readiness(opts) == opts[Len(opts)]

\* UpdateRoot is called: the options are built and Publish is entered.
LegUpdateRoot(callerOpts) ==
    /\ impl = "pub" /\ Len(pub.calls) < MaxCalls
    /\ pub' = [pub EXCEPT !.calls = Append(@,
                  [caller |-> callerOpts, opts |-> PubOpts(callerOpts),
                   pc |-> "wait", at |-> 0])]
    /\ UNCHANGED <<impl, ovars, delivered, bvars, gvars, hvars, hp>>

\* Publish finds the topic ready, sends the link and returns nil.
Publish(i) ==
    /\ impl = "pub" /\ i \in DOMAIN pub.calls /\ pub.calls[i].pc = "wait"
    /\ pub.peers >= Readiness(pub.calls[i].opts)
    /\ pub' = [pub EXCEPT !.calls[i].pc = "ok", !.calls[i].at = pub.peers]
    /\ UNCHANGED <<impl, ovars, delivered, bvars, gvars, hvars, hp>>

\* The context of the call ends while Publish waits: the call returns an error.
PublishCtxDone(i) ==
    /\ impl = "pub" /\ i \in DOMAIN pub.calls /\ pub.calls[i].pc = "wait"
    /\ pub' = [pub EXCEPT !.calls[i].pc = "ctx"]
    /\ UNCHANGED <<impl, ovars, delivered, bvars, gvars, hvars, hp>>

\* Another peer joins or leaves the topic.
PeerJoin ==
    /\ impl = "pub" /\ pub.peers < MaxTopic
    /\ pub' = [pub EXCEPT !.peers = @ + 1]
    /\ UNCHANGED <<impl, ovars, delivered, bvars, gvars, hvars, hp>>

PeerLeave ==
    /\ impl = "pub" /\ pub.peers > 0
    /\ pub' = [pub EXCEPT !.peers = @ - 1]
    /\ UNCHANGED <<impl, ovars, delivered, bvars, gvars, hvars, hp>>

PubNext ==
    \/ \E o \in CallerOpts : LegUpdateRoot(o)
    \/ \E i \in 1..MaxCalls : Publish(i)
    \/ \E i \in 1..MaxCalls : PublishCtxDone(i)
    \/ PeerJoin
    \/ PeerLeave

\* ---------------------------------------------------- httpsync.publisher
\* The text of a link (Cid.String) and its JSON encoding (json.Marshal of
\* the text), as sequences of tokens.
CidString(c) == IF c = Undef THEN <<"b">> ELSE <<"b", c>>
Marshal(str) == <<"\"">> \o str \o <<"\"">>

\* rl.RLock is granted: no writer holds rl.
RLockFree_C24 == TRUE
RLockFree == ~hp.w
\* rl.Lock is granted: neither a writer nor a reader holds rl.
LockFree == ~hp.w /\ hp.r = 0

\* UpdateRoot(c) is called.
HeadUpdateRoot(c) ==
    /\ impl = "head" /\ Len(hp.upd) < MaxCalls
    /\ hp' = [hp EXCEPT !.upd = Append(@, [c |-> c, pc |-> "lock"])]
    /\ UNCHANGED <<impl, ovars, delivered, bvars, gvars, hvars, pub>>

HeadLock(i) ==
    /\ impl = "head" /\ i \in DOMAIN hp.upd /\ hp.upd[i].pc = "lock"
    /\ LockFree
    /\ hp' = [hp EXCEPT !.w = TRUE, !.upd[i].pc = "set"]
    /\ UNCHANGED <<impl, ovars, delivered, bvars, gvars, hvars, pub>>

HeadSetRoot(i) ==
    /\ impl = "head" /\ i \in DOMAIN hp.upd /\ hp.upd[i].pc = "set"
    /\ hp' = [hp EXCEPT !.root = hp.upd[i].c, !.upd[i].pc = "unlock"]
    /\ UNCHANGED <<impl, ovars, delivered, bvars, gvars, hvars, pub>>

\* The deferred Unlock runs and UpdateRoot returns nil: the call is complete.
HeadReturn(i) ==
    /\ impl = "head" /\ i \in DOMAIN hp.upd /\ hp.upd[i].pc = "unlock"
    /\ hp' = [hp EXCEPT !.w = FALSE, !.upd[i].pc = "done", !.last = hp.upd[i].c]
    /\ UNCHANGED <<impl, ovars, delivered, bvars, gvars, hvars, pub>>

\* GET /head arrives.
ServeHTTP ==
    /\ impl = "head" /\ Len(hp.q) < MaxQueries
    /\ hp' = [hp EXCEPT !.q = Append(@, [pc |-> "rlock", out |-> <<>>])]
    /\ UNCHANGED <<impl, ovars, delivered, bvars, gvars, hvars, pub>>

ServeRLock(j) ==
    /\ impl = "head" /\ j \in DOMAIN hp.q /\ hp.q[j].pc = "rlock"
    /\ RLockFree
    /\ hp' = [hp EXCEPT !.r = @ + 1, !.q[j].pc = "write"]
    /\ UNCHANGED <<impl, ovars, delivered, bvars, gvars, hvars, pub>>

\* The root is read, encoded and written to the response.
ServeWrite(j) ==
    /\ impl = "head" /\ j \in DOMAIN hp.q /\ hp.q[j].pc = "write"
    /\ hp' = [hp EXCEPT !.q[j].out = Marshal(CidString(hp.root)),
                        !.q[j].pc = "runlock"]
    /\ UNCHANGED <<impl, ovars, delivered, bvars, gvars, hvars, pub>>

\* The deferred RUnlock runs and the handler returns.
ServeReturn(j) ==
    /\ impl = "head" /\ j \in DOMAIN hp.q /\ hp.q[j].pc = "runlock"
    /\ hp' = [hp EXCEPT !.r = @ - 1, !.q[j].pc = "done"]
    /\ UNCHANGED <<impl, ovars, delivered, bvars, gvars, hvars, pub>>

HeadNext ==
    \/ \E c \in Chain : HeadUpdateRoot(c)
    \/ \E i \in 1..MaxCalls : HeadLock(i)
    \/ \E i \in 1..MaxCalls : HeadSetRoot(i)
    \/ \E i \in 1..MaxCalls : HeadReturn(i)
    \/ ServeHTTP
    \/ \E j \in 1..MaxQueries : ServeRLock(j)
    \/ \E j \in 1..MaxQueries : ServeWrite(j)
    \/ \E j \in 1..MaxQueries : ServeReturn(j)

\* No publisher is running. last is the link of the latest UpdateRoot that
\* returned.
PubIdle ==
    /\ pub = [peers |-> 0, calls |-> <<>>]
    /\ hp = [root |-> Undef, w |-> FALSE, r |-> 0, last |-> Undef,
             upd |-> <<>>, q |-> <<>>]

\* ------------------------------------------------------------ specifications
vars == <<impl, delivered, bvars, gvars, hvars, pvars, ovars>>

Init == impl \in {"broker", "http"} /\ BrokerInit /\ GateIdle /\ HttpIdle /\ PubIdle /\ delivered = 0
Next == BrokerNext \/ HttpNext
Spec == Init /\ [][Next]_vars

\* The gate alone: the store holds any part of the chain before the sync.
InitGate ==
    /\ impl = "gate" /\ GateIdle /\ HttpIdle /\ PubIdle /\ delivered = 0
    /\ store \in SUBSET Blocks
    /\ latestSync = [p \in Peers |-> Undef]
    /\ head = [p \in Peers |-> Undef]
    /\ syncs = <<>>
    /\ mtx = [p \in Peers |-> 0]
    /\ obs = [o \in Observers |-> [st |-> "unused", ch |-> <<>>, closes |-> 0]]
    /\ closed = FALSE
    /\ calls = 0
    /\ syncDoneChans = [k \in Keys |-> 0]
    /\ doneChan = [w \in SyncIds |-> NoChan]
SpecGate == InitGate /\ [][GateNext]_vars

\* The gate over a publisher that holds every block, with a caller that
\* does not give up: a block the store holds arrives with size zero on the
\* wire and any other block over the wire, the limiter grants the first
\* token asked for on every pass, and a refused transfer is started again.
\* A sync of MaxBlocks blocks is given MaxBlocks passes.
GateStartLive == pass.n < MaxBlocks /\ GateBegin

OnIncomingBlockLive(local, allow) ==
    /\ local <=> pass.pos \in store
    /\ pass.got = 0 => allow
    /\ OnIncomingBlock(local, allow)

GateEndLive == pass.pos = MaxBlocks + 1 /\ GateEnd

GateNextLive ==
    \/ \E rl \in {NoLimiter, Explicit} : NewSyncer(rl)
    \/ GateStartLive
    \/ \E local \in BOOLEAN, allow \in BOOLEAN : OnIncomingBlockLive(local, allow)
    \/ GateEndLive

FairGate ==
    /\ WF_vars(GateStartLive)
    /\ WF_vars(\E local \in BOOLEAN, allow \in BOOLEAN : OnIncomingBlockLive(local, allow))

SpecGateLive == InitGate /\ [][GateNextLive]_vars /\ FairGate

\* The broker over a transport that ends every transfer it can: a head
\* query fails only while the publisher has no head, a transfer fails with
\* "content not found" only when the publisher does not hold the target.
BeginLive(s) ==
    /\ Begin(s)
    /\ syncs'[s].err = headErr => head[syncs[s].peer] = Undef

CompleteLive(s, ev) ==
    /\ Complete(s, ev[1], ev[2])
    /\ ev = <<"Failed", <<"content not found">> >> => syncs[s].target \notin Chain

\* The embedder restores a latest sync it recovered from its store.
SetLatestSyncLive(p, l) == SetLatestSync(p, l) /\ l \in store

NextLive ==
    \/ \E p \in Peers, r \in Requests : SyncCall(p, r[1], r[2])
    \/ \E p \in Peers, l \in Chain : Announce(p, l)
    \/ \E o \in Observers : OnSyncFinished(o)
    \/ \E p \in Peers, l \in Chain : SetLatestSyncLive(p, l)
    \/ \E s \in SyncIds : BeginLive(s)
    \/ \E s \in SyncIds, ev \in BrokerEvents : CompleteLive(s, ev)
    \/ \E s \in SyncIds : Abort(s)

\* Handlers are goroutines and get to run; the limiter refills, so that a
\* transfer is not refused forever.
FairLive ==
    \A s \in SyncIds :
        /\ WF_vars(BeginLive(s))
        /\ WF_vars(CompleteLive(s, <<"Completed", <<>> >>))
        /\ WF_vars(CompleteLive(s, <<"Failed", <<"content not found">> >>))

InitLive == impl = "broker" /\ BrokerInit /\ GateIdle /\ HttpIdle /\ PubIdle /\ delivered = 0
SpecLive == InitLive /\ [][NextLive]_vars /\ FairLive

\* ------------------------------------------------- dtsync.Sync on its own
\* The in-progress table of dtsync.Sync driven by transfer sessions: entry s
\* of syncs is the session that waits on channel s.
DtKey(s) == <<syncs[s].cid, syncs[s].peer>>

\* A session begins: notifyOnSyncDone registers a waiter under (c, p).
DtNotify(p, c) ==
    /\ impl = "dtsync" /\ Len(syncs) < MaxSyncs
    /\ LET w == Len(syncs) + 1
       IN  /\ syncs' = Append(syncs, [NewSync(p, c, FALSE, FALSE) EXCEPT
                                         !.pc = "running", !.target = c])
           /\ syncDoneChans' = NotifyTable(<<c, p>>, w)
           /\ doneChan' = NotifyChans(<<c, p>>, w)
    /\ UNCHANGED <<impl, ovars, delivered, pvars, latestSync, store, head, mtx, obs, closed, calls, gvars, hvars>>

\* Syncer.Sync begins. The handler of p runs one session at a time.
DtSync(p, c) ==
    /\ \A s \in 1..Len(syncs) : syncs[s].peer = p => syncs[s].pc = "done"
    /\ DtNotify(p, c)

\* The transfer manager hands an event to onEvent, for the channel of key k
\* in the given state; Close has unsubscribed the events.
DtOnEvent(k, status, msg) ==
    /\ impl = "dtsync" /\ ~closed /\ delivered < MaxEvents
    /\ delivered' = delivered + 1
    /\ IF IsTerminal(status) /\ SignalFound(k)
       THEN /\ syncDoneChans' = SignalTable(k)
            /\ doneChan' = SignalChans(k, OnEventErr(status, msg))
       ELSE UNCHANGED <<syncDoneChans, doneChan>>
    /\ UNCHANGED <<impl, ovars, pvars, latestSync, store, head, syncs, mtx, obs, closed, calls, gvars, hvars>>

\* The event is one onEvent passes on to the waiter of key k.
DtSignals(k, status, msg) ==
    SignalFound(k) /\ IsTerminal(status) /\ DtOnEvent(k, status, msg)

\* Syncer.Sync receives from its channel and returns.
DtReturn(s) ==
    /\ impl = "dtsync" /\ s \in 1..Len(syncs) /\ syncs[s].pc = "running"
    /\ syncDoneChans[DtKey(s)] # s
    /\ doneChan[s].closed
    /\ syncs' = [syncs EXCEPT ![s].pc = "done",
                              ![s].err = IF doneChan[s].buf # <<>>
                                         THEN doneChan[s].buf[1] ELSE Nil]
    /\ doneChan' = [doneChan EXCEPT ![s] = NoChan]
    /\ UNCHANGED <<impl, ovars, delivered, pvars, latestSync, store, head, mtx, obs, closed, calls, syncDoneChans, gvars, hvars>>

\* The context of a waiting session is cancelled: the entry is drained.
DtCancel(s) ==
    /\ impl = "dtsync" /\ s \in 1..Len(syncs) /\ syncs[s].pc = "running"
    /\ syncDoneChans[DtKey(s)] = s
    /\ syncDoneChans' = SignalTable(DtKey(s))
    /\ doneChan' = [doneChan EXCEPT ![s] = NoChan]
    /\ syncs' = [syncs EXCEPT ![s].pc = "done", ![s].err = ctxErr]
    /\ UNCHANGED <<impl, ovars, delivered, pvars, latestSync, store, head, mtx, obs, closed, calls, gvars, hvars>>

\* Sync.Close.
DtClose ==
    /\ impl = "dtsync"
    /\ closed' = TRUE
    /\ syncDoneChans' = CloseTable
    /\ doneChan' = CloseChans
    /\ UNCHANGED <<impl, ovars, delivered, pvars, latestSync, store, head, syncs, mtx, obs, calls, gvars, hvars>>

DtNext ==
    \/ \E p \in Peers, c \in Cids : DtSync(p, c)
    \/ \E k \in Keys, ev \in DtEvents : DtOnEvent(k, ev[1], ev[2])
    \/ \E s \in SyncIds : DtReturn(s)
    \/ \E s \in SyncIds : DtCancel(s)
    \/ DtClose

InitDT == impl = "dtsync" /\ BrokerInit /\ GateIdle /\ HttpIdle /\ PubIdle /\ delivered = 0
SpecDT == InitDT /\ [][DtNext]_vars

\* Syncers used without a handler: sessions of one peer may overlap. No
\* session is begun after Sync.Close. Every transfer ends with a terminal
\* event unless Sync.Close comes first, and Sync.Close is called in the end.
DtNextFree ==
    \/ \E p \in Peers, c \in Cids : ~closed /\ DtNotify(p, c)
    \/ \E k \in Keys, ev \in DtEvents : DtOnEvent(k, ev[1], ev[2])
    \/ \E s \in SyncIds : DtReturn(s)
    \/ DtClose

FairDT ==
    /\ WF_vars(\E k \in Keys, ev \in DtEvents : DtOnEvent(k, ev[1], ev[2]))
    /\ WF_vars(\E s \in SyncIds : DtReturn(s))
    /\ WF_vars(DtClose /\ ~closed)

SpecDTFree == InitDT /\ [][DtNextFree]_vars /\ FairDT

\* legPublisher on its own.
InitPub == impl = "pub" /\ BrokerInit /\ GateIdle /\ HttpIdle /\ PubIdle /\ delivered = 0
SpecPub == InitPub /\ [][PubNext]_vars

\* The HTTP publisher on its own.
InitHead == impl = "head" /\ BrokerInit /\ GateIdle /\ HttpIdle /\ PubIdle /\ delivered = 0
SpecHead == InitHead /\ [][HeadNext]_vars

\* The HTTP subscriber on its own, with OnChange, the cancel functions and
\* Close; the background goroutine gets to run.
FairHttp ==
    /\ WF_vars(BgRequest)
    /\ WF_vars(BgResolve)
    /\ WF_vars(\E ok \in BOOLEAN : BgTransfer(ok))

InitHttp == impl = "http" /\ BrokerInit /\ GateIdle /\ HttpIdle /\ PubIdle /\ delivered = 0
SpecHttp == InitHttp /\ [][HttpObsNext]_vars /\ FairHttp

\* ------------------------------------------------------------------ claims
Done(s) == s \in 1..Len(syncs) /\ syncs[s].pc = "done"

\* The step ends sync s.
Ends(s) == s \in 1..Len(syncs) /\ syncs[s].pc # "done" /\ syncs'[s].pc = "done"

\* The caller of sync s gave a link or a selector.
CallerGave(s) == ~syncs[s].ann /\ (syncs[s].cid # Undef \/ syncs[s].sel)

\* The step ends an iteration of the background loop.
BgEnds == bg.pc \in {"resolve", "transfer"} /\ bg'.pc = "select"

\* C1: when a default sync for p (Sync without link and selector, or an
\* announcement) completes successfully with target l, the latest sync of p
\* is l in the state right after; for the HTTP subscriber, the head is l.
C1_DefaultSyncAdvances ==
    [][ /\ \A s \in SyncIds :
              Ends(s) /\ syncs'[s].status = "Completed" /\ ~CallerGave(s)
                  => latestSync'[syncs[s].peer] = syncs'[s].target
        /\ BgEnds /\ bg'.ok /\ bg.default => hHead' = bg.nextCid ]_vars

C1_Witness ==
    /\ impl = "http" /\ bg.pc = "select" /\ bg.ok /\ bg.default
    /\ bg.nextCid \in Chain /\ hHead = bg.nextCid /\ bg.nextCid \in store

\* C2: a default sync for p that fails (head query or transfer) or is
\* cancelled leaves the latest sync of p as it was; an error outcome never
\* advances it.
C2_FailureKeepsLatest ==
    [][ /\ \A s \in SyncIds :
              Ends(s) /\ syncs'[s].status # "Completed" /\ ~CallerGave(s)
                  => latestSync' = latestSync
        /\ BgEnds /\ ~bg'.ok /\ bg.default => hHead' = hHead ]_vars

C2_Witness ==
    /\ impl = "http" /\ bg.pc = "select" /\ ~bg.ok /\ bg.default
    /\ bg.nextCid \in Chain /\ hHead # bg.nextCid

\* C3: a sync in which the caller gave a link or a selector never changes
\* the latest sync of its publisher, even when it succeeds.
C3_ExplicitKeepsLatest ==
    [][ /\ \A s \in SyncIds :
              Ends(s) /\ CallerGave(s) => latestSync' = latestSync
        /\ BgEnds /\ ~bg.default => hHead' = hHead ]_vars

C3_Witness ==
    /\ impl = "http" /\ bg.pc = "select" /\ bg.ok /\ ~bg.default
    /\ bg.nextCid \in store /\ hHead = Undef

\* C4: for every publisher at most one sync is in its resolve/transfer
\* phase at any time, while syncs of different publishers overlap; the
\* background loop of the HTTP subscriber takes a request only when it is
\* not working on one.
Running(p) == {s \in 1..Len(syncs) : syncs[s].pc = "running" /\ syncs[s].peer = p}

C4_OneSyncPerPublisher ==
    [][ /\ \A p \in Peers : Cardinality(Running(p))' <= 1
        /\ Len(reqs') < Len(reqs) => bg.pc = "select" ]_vars

C4_Witness ==
    \E s1, s2 \in 1..Len(syncs) :
        /\ syncs[s1].peer = syncs[s2].peer
        /\ syncs[s1].pc = "running" /\ syncs[s2].pc = "queued"
        /\ syncs[s2].ann /\ ~syncs[s1].ann

\* C5: the channel Sync returns gets exactly one value, the synced link,
\* and is then closed when the transfer completed; it is closed without a
\* value when the sync failed or was cancelled; it is open and empty until
\* the sync ends.
C5_ReturnedChannel ==
    \A s \in 1..Len(syncs) :
        IF syncs[s].pc = "done"
        THEN /\ syncs[s].outClosed
             /\ syncs[s].status = "Completed" => syncs[s].out = <<syncs[s].target>>
             /\ syncs[s].status # "Completed" => syncs[s].out = <<>>
        ELSE syncs[s].out = <<>> /\ ~syncs[s].outClosed

C5_Witness ==
    /\ \E s \in 1..Len(syncs) :
          Done(s) /\ ~syncs[s].ann /\ syncs[s].out = <<syncs[s].target>>
    /\ \E s \in 1..Len(syncs) :
          Done(s) /\ ~syncs[s].ann /\ syncs[s].status = "Failed" /\ syncs[s].out = <<>>

\* C6: every observer registered (not cancelled, broker not closed) at the
\* step a sync ends receives exactly one event for it, whatever the
\* publisher; nothing else is ever delivered, so an observer registered
\* later is not back-filled.
C6_FanOut ==
    [][ \A o \in Observers :
          obs'[o].ch =
              IF obs[o].st = "live" /\ \E s \in SyncIds : Ends(s)
              THEN Append(obs[o].ch, CHOOSE s \in SyncIds : Ends(s))
              ELSE obs[o].ch ]_vars

C6_Witness ==
    /\ \A o \in Observers :
          /\ Len(obs[o].ch) = 2
          /\ syncs[obs[o].ch[1]].peer # syncs[obs[o].ch[2]].peer
    /\ obs["o1"].ch = obs["o2"].ch

\* C7: for any publisher the sync-finished events are published in the
\* order the syncs were initiated.
C7_InitiationOrder ==
    \A s1, s2 \in 1..Len(syncs) :
        s1 < s2 /\ syncs[s1].peer = syncs[s2].peer /\ syncs[s2].pc = "done"
            => syncs[s1].pc = "done"

\* C8: when a publisher announces L while an observer is registered, the
\* observer eventually receives the event (publisher, L, no error); and an
\* event without error is delivered only when its link is in the store.
C8_Delivered(s, o, l) ==
    /\ s \in 1..Len(syncs)
    /\ \E i \in 1..Len(obs[o].ch) : obs[o].ch[i] = s
    /\ syncs[s].err = Nil /\ syncs[s].target = l

C8_Announced(s, o, l) ==
    /\ s \in 1..Len(syncs) /\ syncs[s].ann /\ syncs[s].pc = "queued"
    /\ syncs[s].cid = l /\ obs[o].st = "live"

C8_StoreBeforeEvent ==
    \A o \in Observers : \A i \in 1..Len(obs[o].ch) :
        syncs[obs[o].ch[i]].err = Nil => syncs[obs[o].ch[i]].target \in store

C9_Failed(s) ==
    Done(s) /\ (syncs[s].err = ctxErr \/ syncs[s].target = NoBlock)

C9_LockReleased ==
    /\ [](\A s \in SyncIds : C9_Failed(s) => mtx[syncs[s].peer] # s)
    /\ \A s1, s2 \in SyncIds :
          (/\ C9_Failed(s1) /\ s2 \in 1..Len(syncs)
           /\ syncs[s2].peer = syncs[s1].peer /\ syncs[s2].pc = "queued")
              ~> Done(s2)

C9_Witness ==
    \E s1, s2 \in 1..Len(syncs) :
        /\ s1 < s2 /\ syncs[s1].peer = syncs[s2].peer
        /\ C9_Failed(s1) /\ syncs[s1].status # "Completed"
        /\ Done(s2) /\ syncs[s2].status = "Completed"
        /\ syncs[s2].target \in store

\* C10: over all passes of a rate-limited sync the user block-hook is
\* invoked at most once for each block link.
HookCalls(b) == Cardinality({i \in 1..Len(pass.hooks) : pass.hooks[i] = b})

C10_HookAtMostOnce == \A b \in Blocks : HookCalls(b) <= 1

\* C11: a transfer that ends rate-limited is retried with the same target
\* and selector while the handler keeps the publisher's lock and publishes
\* nothing; no sync ends with the rate-limited outcome, and the one event of
\* a sync is published when it ends.
C11_Event(s, o) == \E i \in 1..Len(obs[o].ch) : obs[o].ch[i] = s

C12_Beyond(stop, target, b) == stop \in Chain /\ stop >= target /\ b > stop

C12_MayWrite(s, b) ==
    /\ syncs[s].pc = "running" /\ syncs[s].target \in Chain /\ b >= syncs[s].target
    /\ IsDefault(s) => ~C12_Beyond(syncs[s].stop, syncs[s].target, b)

C12_BgMayWrite(b) ==
    /\ bg.pc = "transfer" /\ bg.nextCid \in Chain /\ b >= bg.nextCid
    /\ bg.default => ~C12_Beyond(bg.stop, bg.nextCid, b)

C13_Wanted(stop, target, b) == b \in Chain /\ b >= target /\ (stop >= target => b < stop)

C13_Kept(stop, target, b) == stop >= target /\ b >= stop

C13_MayWrite(s, b) ==
    /\ syncs[s].pc = "running" /\ syncs[s].target \in Chain
    /\ ~syncs[s].sel => ~C13_Kept(syncs[s].stop, syncs[s].target, b)

C13_BgMayWrite(b) ==
    /\ bg.pc = "transfer" /\ bg.nextCid \in Chain
    /\ ~bg.sel => ~C13_Kept(bg.stop, bg.nextCid, b)

\* C13: for a sync without a caller selector the stop S (the latest sync
\* read when the sync began) is exclusive. When the sync completes, the
\* store holds every block from the target down to, but not including, S
\* (the whole chain from the target when S is not at or below the target);
\* no step of such a sync writes S or a block below it, so a block S that
\* was not local is not local after the sync.
C13_ExclusiveStop ==
    [][ /\ \A s \in SyncIds : \A b \in Cids :
              Ends(s) /\ syncs'[s].status = "Completed" /\ ~syncs[s].sel
                 => /\ C13_Wanted(syncs[s].stop, syncs[s].target, b) => b \in store'
                    /\ C13_Kept(syncs[s].stop, syncs[s].target, b) /\ b \notin store
                          => b \notin store'
        /\ \A b \in Cids :
              BgEnds /\ bg'.ok /\ ~bg.sel
                 => /\ C13_Wanted(bg.stop, bg.nextCid, b) => b \in store'
                    /\ C13_Kept(bg.stop, bg.nextCid, b) /\ b \notin store => b \notin store'
        /\ \A b \in store' \ store :
              \/ \E s \in 1..Len(syncs) : C13_MayWrite(s, b)
              \/ C13_BgMayWrite(b) ]_vars

C13_Witness ==
    /\ impl = "http" /\ bg.pc = "select" /\ bg.ok /\ ~bg.sel
    /\ bg.stop \in Chain /\ bg.stop > bg.nextCid
    /\ bg.nextCid \in store /\ bg.stop \notin store

C15_SilentOnFailure ==
    [][ \A s \in SyncIds :
           Ends(s) /\ syncs[s].ann /\ syncs'[s].status = "Failed"
              => /\ \A o \in Observers : obs'[o].ch = obs[o].ch
                 /\ latestSync' = latestSync ]_vars

\* C16: whatever the order of close() and the cancel functions, no observer
\* channel is closed twice and a channel is closed exactly when it has been
\* closed once; after close() no channel is registered; a step other than
\* close() closes at most the one channel; and the cancel function of a
\* closed channel can always run, and changes nothing.
C16_ClosedOnce ==
    [][ /\ \A o \in Observers :
              /\ obs'[o].closes <= 1
              /\ (obs'[o].st = "closed") <=> (obs'[o].closes = 1)
              /\ closed' => obs'[o].st # "live"
              /\ ~closed /\ closed' /\ obs[o].st = "live" => obs'[o].closes = 1
              /\ obs[o].st = "closed" => obs'[o] = obs[o]
              /\ obs[o].st = "closed" => ENABLED CancelObserver(o)
        /\ closed' = closed =>
              Cardinality({o \in Observers : obs'[o].closes # obs[o].closes}) <= 1 ]_vars

C16_Witness ==
    /\ closed /\ calls = MaxCalls
    /\ obs["o1"].st = "closed" /\ obs["o1"].closes = 1

\* C17: once the broker is closed, a further close() changes nothing: no
\* step from a closed broker is a close() that alters the state, the broker
\* stays closed, no observer record changes (no channel is closed again,
\* none is registered), the in-progress table stays empty and no handler
\* starts a transfer.
C17_CloseIdempotent ==
    [][ closed =>
          /\ ~Close
          /\ closed'
          /\ obs' = obs
          /\ \A o \in Observers : ~Registered(o)'
          /\ syncDoneChans' = CloseTable
          /\ \A s \in 1..Len(syncs) : syncs'[s].pc = "running" => syncs[s].pc = "running" ]_vars

C17_Witness ==
    /\ closed /\ ENABLED Close
    /\ \E o \in Observers : obs[o].st = "closed"
    /\ \E s \in 1..Len(syncs) : Done(s) /\ syncs[s].err = closedErr

\* The channels registered in the in-progress table.
C18_Waiters == {w \in SyncIds : \E k \in Keys : syncDoneChans[k] = w}

\* C18: a step of Sync.Close sends "sync closed" to every waiter registered
\* in the in-progress table, as the only value in its channel, closes that
\* channel, leaves the channels of other syncs alone and empties the table;
\* no channel ever holds more than one value.
C18_CloseSignalsWaiters ==
    [][ /\ DtClose =>
              /\ \A w \in C18_Waiters :
                    doneChan'[w] = [buf |-> <<closedErr>>, closed |-> TRUE]
              /\ \A w \in SyncIds \ C18_Waiters : doneChan'[w] = doneChan[w]
              /\ \A k \in Keys : syncDoneChans'[k] = 0
        /\ \A w \in SyncIds : Len(doneChan'[w].buf) <= 1 ]_vars

C18_Witness ==
    /\ closed
    /\ \E s \in 1..Len(syncs) :
          /\ syncs[s].pc = "running"
          /\ doneChan[s] = [buf |-> <<closedErr>>, closed |-> TRUE]
    /\ \A k \in Keys : syncDoneChans[k] = 0

\* C19: once dtsync.Sync is closed, a new sync is not accepted: no waiter is
\* registered in the in-progress table and no session waits on a channel
\* that is neither closed nor holds a value.
C19_RejectedAfterClose ==
    closed =>
        /\ \A k \in Keys : syncDoneChans[k] = 0
        /\ \A s \in 1..Len(syncs) :
              syncs[s].pc = "running" => doneChan[s].closed \/ doneChan[s].buf # <<>>

\* Link l is undefined, or the store holds l and all that l links to.
C20_Full(l) == l = Undef \/ \A b \in Chain : b >= l => b \in store

\* The step is a setLatestSync of a link that is not fully stored.
C20_Override ==
    \/ \E p \in Peers, l \in Chain : SetLatestSync(p, l) /\ ~C20_Full(l)
    \/ \E c \in Chain : HttpSetLatestSync(c) /\ ~C20_Full(c)

\* C20 as stated: in every reachable state every link of the latest-sync
\* map, and the head of the HTTP subscriber, is in the store together with
\* all it links to.
C20_LatestInStore ==
    /\ \A p \in Peers : C20_Full(latestSync[p])
    /\ C20_Full(hHead)

\* The stop every sync in flight has read is fully stored as well.
C20_StopsInStore ==
    /\ \A s \in 1..Len(syncs) : syncs[s].pc = "running" => C20_Full(syncs[s].stop)
    /\ bg.pc = "transfer" => C20_Full(bg.stop)

\* C20, amended: as long as setLatestSync is only given links that are in
\* the store with all they link to, every latest-sync link (and every stop
\* a sync in flight has read) is in the store with all it links to: the
\* property holds initially and every step of a sync and every such
\* setLatestSync keeps it. setLatestSync stores any link unchecked.
C20_LatestStaysInStore ==
    [][ /\ C20_LatestInStore /\ C20_StopsInStore /\ ~C20_Override
              => C20_LatestInStore' /\ C20_StopsInStore'
        /\ \A p \in Peers, l \in Chain :
              SetLatestSync(p, l) => latestSync'[p] = l /\ store' = store
        /\ \A c \in Chain : HttpSetLatestSync(c) => hHead' = c /\ store' = store ]_vars

C20_Witness ==
    \E s \in 1..Len(syncs) :
        /\ Done(s) /\ IsDefault(s) /\ syncs[s].status = "Completed"
        /\ latestSync[syncs[s].peer] = syncs[s].target
        /\ latestSync[syncs[s].peer] = 1 /\ store = Chain
        /\ calls > 0

\* C21: the latest sync of publisher p changes only in the step that ends a
\* successful default sync for p, to that sync's target, or in a
\* setLatestSync(p, l), to l; setLatestSync(p, l) leaves the entries of the
\* other publishers alone. The head of the HTTP subscriber changes only in
\* SetLatestSync(c), to c, or when a successful default iteration of the
\* background loop ends, to the link it fetched.
C21_LatestFrame ==
    [][ /\ \A p \in Peers :
              latestSync'[p] # latestSync[p] =>
                 \/ \E l \in Chain : SetLatestSync(p, l) /\ latestSync'[p] = l
                 \/ \E s \in SyncIds :
                       /\ Ends(s) /\ syncs[s].peer = p /\ IsDefault(s)
                       /\ syncs'[s].status = "Completed" /\ syncs'[s].err = Nil
                       /\ latestSync'[p] = syncs'[s].target
        /\ \A p \in Peers, l \in Chain :
              SetLatestSync(p, l) =>
                 /\ latestSync'[p] = l
                 /\ \A q \in Peers \ {p} : latestSync'[q] = latestSync[q]
        /\ hHead' # hHead =>
              \/ \E c \in Chain : HttpSetLatestSync(c) /\ hHead' = c
              \/ BgEnds /\ bg'.ok /\ bg.default /\ hHead' = bg.nextCid ]_vars

C21_Witness ==
    \E s1, s2 \in 1..Len(syncs) :
        /\ Done(s1) /\ Done(s2) /\ syncs[s1].peer # syncs[s2].peer
        /\ IsDefault(s1) /\ syncs[s1].status = "Completed"
        /\ latestSync[syncs[s1].peer] = syncs[s1].target
        /\ CallerGave(s2) /\ syncs[s2].status = "Completed"
        /\ latestSync[syncs[s2].peer] = Undef

\* C25: whatever the order of terminal events and Sync.Close, a channel that
\* is registered in the in-progress table is open and empty, a channel that
\* has been closed is never sent to and never registered again, no channel
\* ever holds more than one value, and onEvent removes the entry of its key
\* in the step that signals, so that no later event finds it.
C25_SignalledOnce ==
    [][ /\ \A k \in Keys :
              syncDoneChans'[k] # 0 =>
                 doneChan'[syncDoneChans'[k]] = [buf |-> <<>>, closed |-> FALSE]
        /\ \A w \in 1..Len(syncs) :
              doneChan[w].closed =>
                 /\ doneChan'[w].closed
                 /\ Len(doneChan'[w].buf) <= Len(doneChan[w].buf)
                 /\ \A k \in Keys : syncDoneChans'[k] # w
        /\ \A w \in SyncIds : Len(doneChan'[w].buf) <= 1
        /\ \A k \in Keys, ev \in DtEvents :
              doneChan' # doneChan /\ DtSignals(k, ev[1], ev[2]) =>
                 /\ syncDoneChans'[k] = 0
                 /\ doneChan'[syncDoneChans[k]].closed
                 /\ ~SignalFound(k)' ]_vars

C25_Witness ==
    \E s1, s2 \in 1..Len(syncs) :
        /\ closed /\ s1 # s2
        /\ syncs[s1].pc = "running"
        /\ doneChan[s1] = [buf |-> <<Err(<<"datatransfer failed", "content not found", "content not found">>)>>,
                           closed |-> TRUE]
        /\ syncs[s2].pc = "running"
        /\ doneChan[s2] = [buf |-> <<closedErr>>, closed |-> TRUE]

\* C26: the value onEvent hands to the waiter of key k is none for
\* Completed, the cancellation error for Cancelled, an error of type
\* rateLimitErr for every Failed whose message contains "hit rate limit"
\* (whatever the message ends in), and a plain error for any other Failed.
C26_Classified ==
    [][ \A k \in Keys, ev \in DtEvents :
           doneChan' # doneChan /\ DtSignals(k, ev[1], ev[2]) =>
              LET got == doneChan'[syncDoneChans[k]].buf
              IN  /\ ev[1] = "Completed" => got = <<>>
                  /\ ev[1] = "Cancelled" => got = <<Err(<<"datatransfer cancelled">>)>>
                  /\ ev[1] = "Failed" =>
                        /\ Len(got) = 1
                        /\ Contains(ev[2], hitRateLimitErrStr) => got[1].type = "rateLimitErr"
                        /\ ~Contains(ev[2], hitRateLimitErrStr) => got[1].type = "error" ]_vars

\* C27 as stated: for a block that is locally present the gate asks the
\* limiter for no token and the user block-hook is not invoked, in retry
\* mode or not.
C27_LocalBypass ==
    [][ \A allow \in BOOLEAN :
           OnIncomingBlock(TRUE, allow) =>
              /\ pass'.allows = pass.allows
              /\ pass'.hooks = pass.hooks ]_vars

\* C27, amended: for a block b that is locally present the gate asks the
\* limiter for no token and never refuses b; the user block-hook is invoked
\* for b unless the peer is in retry mode with another block in its slot.
C27_LocalNoToken ==
    [][ \A allow \in BOOLEAN :
           OnIncomingBlock(TRUE, allow) =>
              /\ pass'.allows = pass.allows
              /\ pass'.pos = pass.pos + 1 /\ pass'.err = pass.err
              /\ pass'.hooks = IF isRetryingDueToRateLimit[GatePeer] \in {0, pass.pos}
                               THEN Append(pass.hooks, pass.pos) ELSE pass.hooks ]_vars

C27_Witness ==
    /\ impl = "gate" /\ pass.n = 1 /\ pass.pos = 3 /\ pass.allows = 0
    /\ pass.hooks = <<1, 2>> /\ isRetryingDueToRateLimit[GatePeer] = 0

\* C28: when the limiter refuses a token for block b, which is not local,
\* the slot of the peer becomes b whatever it held, the transfer ends with
\* the error "hit rate limit", the hook is not invoked and b is not stored.
C28_Refusal ==
    [][ \A local \in BOOLEAN :
           OnIncomingBlock(local, FALSE) /\ ~local =>
              /\ isRetryingDueToRateLimit'[GatePeer] = pass.pos
              /\ pass'.pos = 0 /\ pass'.err = <<hitRateLimitErrStr>>
              /\ OnEventErr("Failed", pass'.err).type = "rateLimitErr"
              /\ pass'.hooks = pass.hooks
              /\ pass'.allows = pass.allows + 1
              /\ store' = store ]_vars

C28_Witness ==
    /\ impl = "gate" /\ pass.n = 2 /\ pass.pos = 0
    /\ pass.err = <<hitRateLimitErrStr>>
    /\ isRetryingDueToRateLimit[GatePeer] = 1 /\ pass.hooks = <<1>>

\* The step hands block pass.pos to the hook and the gate lets it through.
C29_Passes == pass.pos \in Blocks /\ pass'.pos = pass.pos + 1

\* C29 as stated: on a pass that begins with block f in the peer's slot the
\* hook is invoked neither for a block delivered before f nor for f; the
\* slot is cleared when f is seen and the hook is invoked for every block
\* delivered with the slot empty.
C29_RetrySkipsThroughF ==
    [][ C29_Passes =>
          LET f == isRetryingDueToRateLimit[GatePeer]
          IN  /\ f # 0 /\ pass.pos <= f => pass'.hooks = pass.hooks
              /\ f # 0 /\ pass.pos = f => isRetryingDueToRateLimit'[GatePeer] = 0
              /\ f = 0 => pass'.hooks = Append(pass.hooks, pass.pos) ]_vars

\* C29, amended: on such a pass the hook is not invoked for a block
\* delivered before f and the slot keeps f; when f is delivered the slot is
\* cleared and the hook is invoked for f; with the slot empty the hook is
\* invoked for every block delivered.
C29_RetrySkipsBeforeF ==
    [][ C29_Passes =>
          LET f == isRetryingDueToRateLimit[GatePeer]
          IN  /\ f # 0 /\ pass.pos # f =>
                    /\ pass'.hooks = pass.hooks
                    /\ isRetryingDueToRateLimit'[GatePeer] = f
              /\ f # 0 /\ pass.pos = f =>
                    /\ isRetryingDueToRateLimit'[GatePeer] = 0
                    /\ pass'.hooks = Append(pass.hooks, f)
              /\ f = 0 =>
                    /\ pass'.hooks = Append(pass.hooks, pass.pos)
                    /\ isRetryingDueToRateLimit'[GatePeer] = 0 ]_vars

C29_Witness ==
    /\ impl = "gate" /\ pass.n = 2 /\ pass.pos = MaxBlocks + 1
    /\ pass.hooks = <<1, 2, 3>> /\ pass.allows = 3
    /\ isRetryingDueToRateLimit[GatePeer] = 0

\* C30: when a sync for the peer has terminated its retry slot is empty, so
\* the next sync starts without a last-failed block, and on the first pass
\* of every sync the hook is invoked for each block the gate lets through.
C30_CleanSlot ==
    impl = "gate" =>
        /\ pass.n = 0 => isRetryingDueToRateLimit[GatePeer] = 0
        /\ pass.n = 1 /\ pass.pos \in 1..(MaxBlocks + 1) =>
              pass.hooks = [i \in 1..(pass.pos - 1) |-> i]

C30_Witness ==
    /\ impl = "gate" /\ pass.sync = 2 /\ pass.left = 2
    /\ pass.n = 1 /\ pass.pos = 2 /\ pass.hooks = <<1>>
    /\ isRetryingDueToRateLimit[GatePeer] = 0

\* The number of other peers the topic must have for a call made with the
\* given caller options: the caller's last readiness, one by default.
C23_Needs(callerOpts) ==
    IF callerOpts = <<>> THEN 1 ELSE callerOpts[Len(callerOpts)]

\* C23: an UpdateRoot without caller options returns nil only when the topic
\* has at least one other peer, and until then it waits or ends with its
\* context; with a readiness option from the caller it returns nil only
\* when, and as soon as, that readiness is met.
C23_DefaultReadiness ==
    impl = "pub" =>
        \A i \in DOMAIN pub.calls :
            LET call == pub.calls[i]
            IN  /\ call.pc = "ok" => call.at >= C23_Needs(call.caller)
                /\ call.pc = "wait" /\ pub.peers >= C23_Needs(call.caller) =>
                      ENABLED Publish(i)

C23_Witness ==
    /\ impl = "pub" /\ Len(pub.calls) = 2 /\ pub.peers = 0
    /\ pub.calls[1].caller = <<>> /\ pub.calls[1].pc = "ok" /\ pub.calls[1].at = 1
    /\ pub.calls[2].caller = <<0>> /\ pub.calls[2].pc = "ok" /\ pub.calls[2].at = 0

\* C24: the response to a head query is the encoding of the link given to
\* the latest UpdateRoot that returned, and of the undefined link when none
\* has returned, from the moment it is written until the handler returns.
C24_HeadIsLatest ==
    impl = "head" =>
        \A j \in DOMAIN hp.q :
            hp.q[j].pc = "runlock" =>
                hp.q[j].out = Marshal(CidString(hp.last))

C24_Witness ==
    /\ impl = "head" /\ Len(hp.upd) = 2 /\ Len(hp.q) = 2
    /\ hp.upd[1].pc = "done" /\ hp.upd[2].pc = "lock"
    /\ hp.upd[1].c = 1 /\ hp.upd[2].c = 2
    /\ hp.q[1].pc = "done" /\ hp.q[1].out = Marshal(CidString(Undef))
    /\ hp.q[2].pc = "runlock" /\ hp.q[2].out = Marshal(CidString(1))

\* C31: the gate consults the peer's override while one is registered and
\* the limiter of the lookup otherwise, and a sync whose Syncer was made
\* with a limiter of its own is gated by that limiter only.
C31_GatedByGiven ==
    impl = "gate" =>
        /\ pass.asked \subseteq
              {IF pass.override # NoLimiter THEN pass.override ELSE limiterFor(GatePeer)}
        /\ pass.given # NoLimiter => pass.asked \subseteq {pass.given}

\* C32: once a session has returned, whether after a terminal event, after
\* Sync.Close or because its context ended, the in-progress table holds no
\* entry of that session; when no session is running the table is empty.
C32_NoEntryLeft ==
    impl = "dtsync" =>
        /\ \A s \in 1..Len(syncs) :
              syncs[s].pc = "done" => \A k \in Keys : syncDoneChans[k] # s
        /\ (\A s \in 1..Len(syncs) : syncs[s].pc = "done") =>
              syncDoneChans = [k \in Keys |-> 0]

C32_Witness ==
    /\ impl = "dtsync" /\ Len(syncs) = 2 /\ ~closed
    /\ syncs[1].pc = "done" /\ syncs[1].err = ctxErr
    /\ syncs[2].pc = "done" /\ syncs[2].err = Nil
    /\ DtKey(1) = DtKey(2)
    /\ syncDoneChans = [k \in Keys |-> 0]

\* C33: every channel notifyOnSyncDone has returned is closed in the end,
\* by a terminal event for its key or by Sync.Close, also when the same key
\* is registered again before the first session has ended.
C33_NoOrphan ==
    \A w \in SyncIds : (~doneChan[w].closed) ~> doneChan[w].closed

\* C34: an event whose channel state is not terminal, or whose key has no
\* waiter in the table, leaves the table as it is and neither sends to nor
\* closes any channel: a step that changes the table or a channel is the
\* step of no such event.
C34_IgnoredEvent ==
    [][ <<syncDoneChans, doneChan>>' # <<syncDoneChans, doneChan>> =>
          \A k \in Keys, ev \in DtEvents :
              ev[1] \notin {"Completed", "Cancelled", "Failed"} \/ syncDoneChans[k] = 0
                  => ~DtOnEvent(k, ev[1], ev[2]) ]_vars

C34_Witness ==
    /\ impl = "dtsync" /\ delivered = 2 /\ ~closed
    /\ Len(syncs) = 1 /\ syncs[1].pc = "running"
    /\ syncDoneChans[DtKey(1)] = 1 /\ doneChan[1] = [buf |-> <<>>, closed |-> FALSE]

\* The transfer of the running default sync s has nothing to fetch: its
\* target is the latest sync it stops at, or every block between the two is
\* in the store already.
C35_NothingToFetch(s) ==
    /\ s \in 1..Len(syncs) /\ syncs[s].pc = "running" /\ IsDefault(s)
    /\ syncs[s].target \in Chain
    /\ Range(FetchSeq(syncs[s].target, syncs[s].stop, syncs[s].sel)) \subseteq store

\* C35: a default sync with nothing to fetch still ends, without an error
\* unless its caller cancelled it; when it ends without an error the latest
\* sync of its publisher is its target and every live observer has received
\* exactly one event for it.
C35_NoopSyncReported ==
    /\ [][ \A s \in SyncIds :
              C35_NothingToFetch(s) /\ Ends(s) /\ syncs'[s].err = Nil =>
                  /\ latestSync'[syncs[s].peer] = syncs[s].target
                  /\ \A o \in Observers :
                        obs[o].st = "live" => obs'[o].ch = Append(obs[o].ch, s) ]_vars
    /\ \A s \in SyncIds :
          C35_NothingToFetch(s) ~>
              (Done(s) /\ (syncs[s].err = Nil \/ (~syncs[s].ann /\ syncs[s].err = ctxErr)))

C35_Witness ==
    /\ impl = "broker" /\ Len(syncs) = 2
    /\ syncs[1].ann /\ syncs[2].ann /\ syncs[1].peer = syncs[2].peer
    /\ syncs[1].cid = 1 /\ syncs[2].cid = 1
    /\ Done(1) /\ Done(2) /\ syncs[1].err = Nil /\ syncs[2].err = Nil
    /\ latestSync[syncs[1].peer] = 1
    /\ obs["o1"].st = "live" /\ obs["o1"].ch = <<1, 2>>

\* C36: the response channel of an HTTP Sync call receives a link only from
\* an iteration of the background loop whose fetch succeeded, and then the
\* link fetched; when the head query or the fetch fails the channel is
\* closed with nothing in it.
C36_RespOnlyOnSuccess ==
    [][ \A w \in SyncIds :
           resp[w].made /\ ~resp[w].closed /\ resp'[w].closed =>
               /\ BgEnds /\ bg.workResp = w
               /\ resp'[w].buf = IF bg'.ok THEN <<bg.nextCid>> ELSE <<>> ]_vars

\* The background loop has just ended a successful default sync that moved
\* the head to h.
C37_Advanced(h) ==
    /\ impl = "http" /\ bg.pc = "select" /\ bg.ok /\ bg.updateHead
    /\ bg.nextCid = h /\ hHead = h

\* C37: after a successful default sync of the HTTP subscriber that moved
\* the head to h, every channel OnChange has handed out receives h, unless
\* it is cancelled or closed first or the process ends.
C37_ObserversNotified ==
    \A o \in Observers, h \in Chain :
        (C37_Advanced(h) /\ obs[o].st = "live")
            ~> \/ obs[o].st # "live" \/ panic # "none"
               \/ \E i \in 1..Len(obs[o].ch) : obs[o].ch[i] = h

\* C38: no close is applied to a nil channel or to a closed one, whatever
\* OnChange, cancel and Close calls are made: no channel is closed twice,
\* and once Close has been called the observer list is empty.
C38_NoBadClose ==
    impl = "http" =>
        /\ panic = "none"
        /\ \A o \in Observers : obs[o].closes <= 1
        /\ closed => subs = <<>>

\* C39: with a publisher that holds every block, stored blocks arriving
\* with size zero, a token granted on every pass and a caller that does not
\* give up, a pass is refused only at a block after the one the pass before
\* it was refused at, and a sync that has started ends with every block
\* delivered.
C39_RetriesTerminate ==
    /\ [][ pass.pos \in Blocks /\ pass'.pos = 0 /\ pass'.n = pass.n =>
              pass.pos > pass.last ]_vars
    /\ (impl = "gate" /\ pass.n >= 1) ~> (pass.pos = MaxBlocks + 1)

C39_Witness ==
    /\ impl = "gate" /\ pass.sync = 1 /\ pass.n = MaxBlocks
    /\ pass.pos = MaxBlocks + 1 /\ pass.last = MaxBlocks
    /\ pass.allows = 2 * MaxBlocks - 1
    /\ store = Blocks /\ isRetryingDueToRateLimit[GatePeer] = 0

====
